---- MODULE Spec2Model ----
(***************************************************************************)
(* EcoCompute: the Activity Ledger (cart, wishlist, view history) and the  *)
(* Catalog Query Layer of server/storage.ts, driven by the REST routes,    *)
(* with the sessions and the auth routes in front of them.                 *)
(*                                                                         *)
(* Every storage method is a sequence of SQL statements separated by       *)
(* `await`; a statement is atomic, the method is not.  A request slot      *)
(* (Procs) walks through the statements of its handler one action at a     *)
(* time, so that two requests can interleave between statements.           *)
(*                                                                         *)
(* Nullable columns and optional arguments are options: <<>> is            *)
(* NULL / undefined, <<x>> is the value x.  Text is a sequence of          *)
(* one-character strings.                                                  *)
(***************************************************************************)
EXTENDS Integers, Sequences, FiniteSets, TLC

VARIABLES
    cart,       \* rows of table cart:            [id, userId, productId, quantity]
    wishlist,   \* rows of table wishlist:        [id, userId, productId]
    viewed,     \* rows of table viewed_products: [id, userId, productId, viewedAt]
    nextId,     \* the next generated primary key (gen_random_uuid())
    now,        \* the database clock (defaultNow())
    nOps,       \* requests accepted so far
    req,        \* per request slot: the handler running there and its position
    users,      \* rows of table users, by id
    products,   \* rows of table products, by id
    resp,       \* the last response of a route that answers in one step
    session     \* per client: the userId its session holds, if any

vars == <<cart, wishlist, viewed, nextId, now, nOps, req, users, products, resp, session>>

\* the persisted ledger
ledger == <<cart, wishlist, viewed>>

----------------------------------------------------------------------------
(* Bounds and input domains *)

\* requests accepted in a run where requests overlap / run one at a time
MaxOps == 3
MaxSeqOps == 2
\* catalog requests answered in a run of the catalog alone
MaxQueries == 1

Procs == {1, 2}
SeqProcs == {1}
UserIds == {"u1", "u2"}
ProductIds == {"p1", "p2"}

None == <<>>
Some(x) == <<x>>

\* quantity of a POST /api/cart body: omitted, or any integer
AddQtyArgs == {None, Some(-1), Some(0), Some(1), Some(2)}
\* quantity of a PUT /api/cart/:productId body
UpdQtyArgs == {-1, 0, 1, 2}
\* the quantities tried where requests overlap
ConcAddQtyArgs == {None, Some(2)}
ConcUpdQtyArgs == {0, 2}

----------------------------------------------------------------------------
(* SQL statements over the three ledger tables *)

\* WHERE user_id = u AND product_id = p
SelectPair(table, u, p) == {r \in table : r.userId = u /\ r.productId = p}

\* mutant: the DELETE removes nothing
DeletePairMut(table, u, p) == table

\* mutant: the WHERE clause of the DELETE leaves the product out
DeletePairOfUserMut(table, u, p) == {r \in table : r.userId # u}

\* DELETE FROM table WHERE user_id = u AND product_id = p
DeletePair(table, u, p) == table \ SelectPair(table, u, p)

\* mutant: the UPDATE adds n to the quantity
UpdateQuantityMut(table, u, p, n) ==
    {IF r.userId = u /\ r.productId = p THEN [r EXCEPT !.quantity = r.quantity + n] ELSE r :
        r \in table}

\* UPDATE cart SET quantity = n WHERE user_id = u AND product_id = p
UpdateQuantity(table, u, p, n) ==
    {IF r.userId = u /\ r.productId = p THEN [r EXCEPT !.quantity = n] ELSE r : r \in table}

\* cartItem.quantity || 1
AddAmount(q) == IF q = None \/ q[1] = 0 THEN 1 ELSE q[1]

\* INSERT ... VALUES(cartItem): column default 1 when quantity is not given
InsertQuantity(q) == IF q = None THEN 1 ELSE q[1]

NewCartRow(id, u, p, q) ==
    [id |-> id, userId |-> u, productId |-> p, quantity |-> InsertQuantity(q)]

NewWishlistRow(id, u, p) == [id |-> id, userId |-> u, productId |-> p]

NewViewRow(id, u, p, t) == [id |-> id, userId |-> u, productId |-> p, viewedAt |-> t]

\* sum of the quantities of a set of cart rows
RECURSIVE SumQuantity(_)
SumQuantity(rows) ==
    IF rows = {} THEN 0
    ELSE LET r == CHOOSE x \in rows : TRUE
         IN  r.quantity + SumQuantity(rows \ {r})

TotalQuantity(u, p) == SumQuantity(SelectPair(cart, u, p))

----------------------------------------------------------------------------
(* Request slots *)

\* n numbers the requests; q0, ov and pre are ghosts: the pair's total quantity
\* (for a view, its number of rows) when the request was accepted, whether it
\* overlaps another add, and the ledger as it was when the request was accepted;
\* body is the parsed body of a signup
Idle == [op |-> "none", pc |-> "idle", n |-> 0, u |-> "-", p |-> "-", q |-> None,
         existing |-> {}, ret |-> {}, q0 |-> 0, ov |-> FALSE, pre |-> None,
         body |-> None]

\* a handler has answered when it is done, or failed: a statement threw
InFlight(i) == req[i].pc \notin {"idle", "done", "failed"}

\* a slot accepts a request when it runs none; `conc` lets requests overlap
CanStart(i, conc) ==
    /\ ~InFlight(i)
    /\ IF conc THEN nOps < MaxOps
               ELSE nOps < MaxSeqOps /\ \A j \in Procs : ~InFlight(j)

\* ghost: another addToCart on the same pair has been accepted and has not written yet
Overlaps(i, u, p) ==
    \E j \in Procs \ {i} : InFlight(j) /\ req[j].op = "addToCart"
                           /\ req[j].u = u /\ req[j].p = p

Done(i, ret) ==
    [req EXCEPT ![i].pc = "done", ![i].ret = ret, ![i].existing = {}, ![i].pre = None]

----------------------------------------------------------------------------
(* POST /api/cart -> storage.addToCart: SELECT, then UPDATE or INSERT *)

AddToCartStart(i, u, p, q, conc) ==
    /\ CanStart(i, conc)
    /\ req' = [req EXCEPT ![i] =
                 [op |-> "addToCart", pc |-> "select", n |-> nOps + 1,
                  u |-> u, p |-> p, q |-> q, existing |-> {}, ret |-> {},
                  q0 |-> TotalQuantity(u, p), ov |-> Overlaps(i, u, p),
                  pre |-> Some(ledger), body |-> None]]
    /\ nOps' = nOps + 1
    /\ UNCHANGED <<cart, wishlist, viewed, nextId, now, users, products, resp, session>>

\* mutant: the WHERE clause compares product_id with the user id
ExistingCartRowsMut(table, u, p) == {r \in table : r.userId = u /\ r.productId = u}

\* the SELECT of addToCart
ExistingCartRows(table, u, p) == SelectPair(table, u, p)

AddToCartSelect(i) ==
    /\ req[i].op = "addToCart" /\ req[i].pc = "select"
    /\ req' = [req EXCEPT ![i].pc = "write",
                          ![i].existing = ExistingCartRows(cart, req[i].u, req[i].p)]
    /\ UNCHANGED <<cart, wishlist, viewed, nextId, now, nOps, users, products, resp, session>>

\* the table after the UPDATE branch, e being existing[0]
CartAfterUpdate(table, e, u, p, q) ==
    UpdateQuantity(table, u, p, e.quantity + AddAmount(q))

\* the table after the INSERT branch
CartAfterInsert(table, id, u, p, q) == table \cup {NewCartRow(id, u, p, q)}

AddToCartWrite(i) ==
    LET r == req[i] IN
    /\ r.op = "addToCart" /\ r.pc = "write"
    /\ IF r.existing # {}
         THEN \E e \in r.existing :
                /\ cart' = CartAfterUpdate(cart, e, r.u, r.p, r.q)
                /\ \/ /\ SelectPair(cart', r.u, r.p) = {}
                      /\ req' = Done(i, {})
                   \/ \E upd \in SelectPair(cart', r.u, r.p) : req' = Done(i, {upd})
                /\ nextId' = nextId
         ELSE /\ cart' = CartAfterInsert(cart, nextId, r.u, r.p, r.q)
              /\ req' = Done(i, {NewCartRow(nextId, r.u, r.p, r.q)})
              /\ nextId' = nextId + 1
    /\ UNCHANGED <<wishlist, viewed, now, nOps, users, products, resp, session>>

----------------------------------------------------------------------------
(* DELETE /api/cart/:productId -> storage.removeFromCart: one DELETE *)

\* mutant: the WHERE clause leaves the user out
removeFromCartMut(table, u, p) == {r \in table : r.productId # p}

removeFromCart(table, u, p) == DeletePair(table, u, p)

RemoveFromCart(i, u, p, conc) ==
    /\ CanStart(i, conc)
    /\ cart' = removeFromCart(cart, u, p)
    /\ req' = [req EXCEPT ![i] =
                 [Idle EXCEPT !.op = "removeFromCart", !.pc = "done", !.n = nOps + 1,
                              !.u = u, !.p = p, !.q0 = TotalQuantity(u, p)]]
    /\ nOps' = nOps + 1
    /\ UNCHANGED <<wishlist, viewed, nextId, now, users, products, resp, session>>

----------------------------------------------------------------------------
(* PUT /api/cart/:productId -> storage.updateCartQuantity: one DELETE or UPDATE *)

\* mutant: quantity 0 is written instead of removing the item
updateCartQuantityMut(table, u, p, quantity) ==
    IF quantity < 0
      THEN DeletePair(table, u, p)
      ELSE UpdateQuantity(table, u, p, quantity)

updateCartQuantity(table, u, p, quantity) ==
    IF quantity <= 0
      THEN removeFromCart(table, u, p)
      ELSE UpdateQuantity(table, u, p, quantity)

UpdateCartQuantity(i, u, p, quantity, conc) ==
    /\ CanStart(i, conc)
    /\ cart' = updateCartQuantity(cart, u, p, quantity)
    /\ req' = [req EXCEPT ![i] =
                 [Idle EXCEPT !.op = "updateCartQuantity", !.pc = "done", !.n = nOps + 1,
                              !.u = u, !.p = p, !.q = Some(quantity),
                              !.q0 = TotalQuantity(u, p)]]
    /\ nOps' = nOps + 1
    /\ UNCHANGED <<wishlist, viewed, nextId, now, users, products, resp, session>>

----------------------------------------------------------------------------
(* POST /api/wishlist -> storage.addToWishlist: SELECT, then return or INSERT *)

AddToWishlistStart(i, u, p, conc) ==
    /\ CanStart(i, conc)
    /\ req' = [req EXCEPT ![i] =
                 [Idle EXCEPT !.op = "addToWishlist", !.pc = "select", !.n = nOps + 1,
                              !.u = u, !.p = p, !.pre = Some(ledger)]]
    /\ nOps' = nOps + 1
    /\ UNCHANGED <<cart, wishlist, viewed, nextId, now, users, products, resp, session>>

\* mutant: the SELECT finds nothing
ExistingWishlistRowsMut(table, u, p) == {}

\* SELECT * FROM wishlist WHERE user_id = u AND product_id = p
ExistingWishlistRows(table, u, p) == SelectPair(table, u, p)

AddToWishlistSelect(i) ==
    LET r == req[i]
        found == ExistingWishlistRows(wishlist, r.u, r.p) IN
    /\ r.op = "addToWishlist" /\ r.pc = "select"
    /\ IF found # {}
         THEN \E e \in found : req' = Done(i, {e})
         ELSE req' = [req EXCEPT ![i].pc = "write"]
    /\ UNCHANGED <<cart, wishlist, viewed, nextId, now, nOps, users, products, resp, session>>

AddToWishlistInsert(i) ==
    LET r == req[i] IN
    /\ r.op = "addToWishlist" /\ r.pc = "write"
    /\ wishlist' = wishlist \cup {NewWishlistRow(nextId, r.u, r.p)}
    /\ req' = Done(i, {NewWishlistRow(nextId, r.u, r.p)})
    /\ nextId' = nextId + 1
    /\ UNCHANGED <<cart, viewed, now, nOps, users, products, resp, session>>

----------------------------------------------------------------------------
(* DELETE /api/wishlist/:productId -> storage.removeFromWishlist: one DELETE *)

RemoveFromWishlist(i, u, p, conc) ==
    /\ CanStart(i, conc)
    /\ wishlist' = DeletePair(wishlist, u, p)
    /\ req' = [req EXCEPT ![i] =
                 [Idle EXCEPT !.op = "removeFromWishlist", !.pc = "done", !.n = nOps + 1,
                              !.u = u, !.p = p]]
    /\ nOps' = nOps + 1
    /\ UNCHANGED <<cart, viewed, nextId, now, users, products, resp, session>>

----------------------------------------------------------------------------
(* GET /api/products/:id with a session -> storage.addViewedProduct:       *)
(* DELETE, then INSERT                                                     *)

RecordViewStart(i, u, p, conc) ==
    /\ CanStart(i, conc)
    /\ req' = [req EXCEPT ![i] =
                 [Idle EXCEPT !.op = "addViewedProduct", !.pc = "delete", !.n = nOps + 1,
                              !.u = u, !.p = p, !.pre = Some(ledger),
                              !.q0 = Cardinality(SelectPair(viewed, u, p))]]
    /\ nOps' = nOps + 1
    /\ UNCHANGED <<cart, wishlist, viewed, nextId, now, users, products, resp, session>>

RecordViewDelete(i) ==
    LET r == req[i] IN
    /\ r.op = "addViewedProduct" /\ r.pc = "delete"
    /\ viewed' = DeletePair(viewed, r.u, r.p)
    /\ req' = [req EXCEPT ![i].pc = "insert"]
    /\ UNCHANGED <<cart, wishlist, nextId, now, nOps, users, products, resp, session>>

RecordViewInsert(i) ==
    LET r == req[i] IN
    /\ r.op = "addViewedProduct" /\ r.pc = "insert"
    /\ viewed' = viewed \cup {NewViewRow(nextId, r.u, r.p, now)}
    /\ req' = Done(i, {NewViewRow(nextId, r.u, r.p, now)})
    /\ nextId' = nextId + 1
    /\ now' = now + 1
    /\ UNCHANGED <<cart, wishlist, nOps, users, products, resp, session>>

----------------------------------------------------------------------------
(* A statement that throws (the database is unreachable, the connection    *)
(* drops): the storage method rejects and the route's catch answers.       *)

\* the messages of the errors the database driver throws
StorageErrors == {"Connection terminated unexpectedly", "too many clients already"}

\* the status of the catch block: 400 in the POST routes, 500 in the others
CatchStatus(op) == IF op \in {"addToCart", "addToWishlist", "signup"} THEN 400 ELSE 500

\* catch (error) { res.status(...).json({ message: error.message }) }; the
\* field error is a ghost: the message of the error the storage threw
CatchResponse(op, error) ==
    [op |-> op, status |-> CatchStatus(op), message |-> error, error |-> error]

\* the statement the handler in slot i is about to run throws
StatementFails(i) ==
    /\ InFlight(i)
    /\ req' = [req EXCEPT ![i].pc = "failed"]
    /\ \E m \in StorageErrors : resp' = CatchResponse(req[i].op, m)
    /\ UNCHANGED <<cart, wishlist, viewed, nextId, now, nOps, users, products, session>>

\* the one statement of updateCartQuantity throws
UpdateCartQuantityFails(i, u, p, quantity, conc) ==
    /\ CanStart(i, conc)
    /\ req' = [req EXCEPT ![i] =
                 [Idle EXCEPT !.op = "updateCartQuantity", !.pc = "failed", !.n = nOps + 1,
                              !.u = u, !.p = p, !.q = Some(quantity),
                              !.q0 = TotalQuantity(u, p), !.pre = Some(ledger)]]
    /\ nOps' = nOps + 1
    /\ \E m \in StorageErrors : resp' = CatchResponse("updateCartQuantity", m)
    /\ UNCHANGED <<cart, wishlist, viewed, nextId, now, users, products, session>>

----------------------------------------------------------------------------
(* GET /api/viewed -> storage.getViewedProductsByUserId: one SELECT *)

\* mutant: the rows come oldest view first
ViewOrderingsMut(rows) ==
    {s \in [1..Cardinality(rows) -> rows] :
        /\ \A j, k \in DOMAIN s : j # k => s[j] # s[k]
        /\ \A j, k \in DOMAIN s : j < k => s[j].viewedAt <= s[k].viewedAt}

\* the rows in an order ORDER BY viewed_at DESC may give
ViewOrderings(rows) ==
    {s \in [1..Cardinality(rows) -> rows] :
        /\ \A j, k \in DOMAIN s : j # k => s[j] # s[k]
        /\ \A j, k \in DOMAIN s : j < k => s[j].viewedAt >= s[k].viewedAt}

\* the view rows of u joined with their products, latest first
getViewedProductsByUserId(u) ==
    ViewOrderings({r \in viewed : r.userId = u /\ r.productId \in DOMAIN products})

\* ghost: the products a RecordView of u is replacing the view row of
ViewsInReplacement(u) ==
    {req[j].p : j \in {k \in Procs : /\ InFlight(k) /\ req[k].op = "addViewedProduct"
                                      /\ req[k].u = u /\ req[k].q0 > 0}}

\* client i reads the view history of the session user u
ViewHistoryRoute(i, u, conc) ==
    /\ CanStart(i, conc)
    /\ nOps' = nOps + 1
    /\ \E items \in getViewedProductsByUserId(u) :
          resp' = [op |-> "viewed", status |-> 200, u |-> u, items |-> items,
                   running |-> ViewsInReplacement(u)]
    /\ UNCHANGED <<cart, wishlist, viewed, nextId, now, req, users, products, session>>

----------------------------------------------------------------------------
(* Sessions and the auth routes.  Client i is a browser with its own       *)
(* session cookie; it sends one request at a time through slot i.          *)

\* bcrypt.hash(password, 10): the stored credential is not the password
bcryptHash(pw) == <<"$2b$10$", pw>>

\* mutant: every password matches
bcryptCompareMut(pw, hash) == TRUE

\* bcrypt.compare(password, user.password)
bcryptCompare(pw, hash) == hash = bcryptHash(pw)

\* storage.getUserByEmail: the ids of the rows with that email
getUserByEmail(email) == {id \in DOMAIN users : users[id].email = email}

\* mutant: the email column has no unique constraint
EmailTakenMut(table, email) == FALSE

\* the unique constraint of users.email rejects the INSERT
EmailTaken(table, email) == \E id \in DOMAIN table : table[id].email = email

\* const { password, ...userWithoutPassword } = user
WithoutPassword(row) == [f \in (DOMAIN row) \ {"password"} |-> row[f]]

\* mutant: the middleware lets every request through
requireAuthMut(i) == TRUE

\* the middleware requireAuth lets the request of client i through
requireAuth(i) == session[i] # None

\* req.session.userId
SessionUser(i) == IF session[i] = None THEN "undefined" ELSE session[i][1]

\* requireAuth answers 401 in place of the handler of route `op`
Unauthorized(i, op, conc) ==
    /\ CanStart(i, conc)
    /\ ~requireAuth(i)
    /\ nOps' = nOps + 1
    /\ resp' = [op |-> op, status |-> 401, client |-> i]
    /\ UNCHANGED <<cart, wishlist, viewed, nextId, now, req, users, products, session>>

\* POST /api/auth/signup: SELECT by email, hash, INSERT, set the session
SignupStart(i, body, conc) ==
    /\ CanStart(i, conc)
    /\ req' = [req EXCEPT ![i] =
                 [Idle EXCEPT !.op = "signup", !.pc = "select", !.n = nOps + 1,
                              !.body = Some(body)]]
    /\ nOps' = nOps + 1
    /\ UNCHANGED <<cart, wishlist, viewed, nextId, now, users, products, resp, session>>

SignupSelect(i) ==
    /\ req[i].op = "signup" /\ req[i].pc = "select"
    /\ IF getUserByEmail(req[i].body[1].email) # {}
         THEN /\ req' = Done(i, {})
              /\ resp' = [op |-> "signup", status |-> 400, client |-> i,
                          message |-> "User already exists"]
         ELSE /\ req' = [req EXCEPT ![i].pc = "insert"]
              /\ resp' = resp
    /\ UNCHANGED <<cart, wishlist, viewed, nextId, now, nOps, users, products, session>>

SignupInsert(i) ==
    LET b == req[i].body[1] IN
    /\ req[i].op = "signup" /\ req[i].pc = "insert"
    /\ req' = Done(i, {})
    /\ IF EmailTaken(users, b.email)
         THEN /\ resp' = [op |-> "signup", status |-> 400, client |-> i,
                          message |-> "duplicate key value violates unique constraint"]
              /\ UNCHANGED <<users, session>>
         ELSE \E id \in UserIds \ DOMAIN users :
                LET row == [id |-> id, email |-> b.email,
                            password |-> bcryptHash(b.password),
                            age |-> b.age, gender |-> b.gender] IN
                /\ users' = [x \in DOMAIN users \cup {id} |->
                                IF x = id THEN row ELSE users[x]]
                /\ session' = [session EXCEPT ![i] = Some(id)]
                /\ resp' = [op |-> "signup", status |-> 200, client |-> i,
                            user |-> WithoutPassword(row)]
    /\ UNCHANGED <<cart, wishlist, viewed, nextId, now, nOps, products>>

\* POST /api/auth/login: one SELECT, then bcrypt.compare; `given` is a ghost:
\* the credentials of the request
Login(i, email, pw, conc) ==
    LET given == [email |-> email, password |-> pw] IN
    /\ CanStart(i, conc)
    /\ nOps' = nOps + 1
    /\ IF getUserByEmail(email) = {}
         THEN /\ resp' = [op |-> "login", status |-> 401, client |-> i, given |-> given]
              /\ session' = session
         ELSE \E id \in getUserByEmail(email) :
                IF bcryptCompare(pw, users[id].password)
                  THEN /\ session' = [session EXCEPT ![i] = Some(id)]
                       /\ resp' = [op |-> "login", status |-> 200, client |-> i,
                                   given |-> given, user |-> WithoutPassword(users[id])]
                  ELSE /\ resp' = [op |-> "login", status |-> 401, client |-> i,
                                   given |-> given]
                       /\ session' = session
    /\ UNCHANGED <<cart, wishlist, viewed, nextId, now, req, users, products>>

\* POST /api/auth/logout: req.session.destroy
Logout(i, conc) ==
    /\ CanStart(i, conc)
    /\ nOps' = nOps + 1
    /\ session' = [session EXCEPT ![i] = None]
    /\ resp' = [op |-> "logout", status |-> 200, client |-> i]
    /\ UNCHANGED <<cart, wishlist, viewed, nextId, now, req, users, products>>

\* GET /api/auth/me
Me(i, conc) ==
    /\ CanStart(i, conc)
    /\ nOps' = nOps + 1
    /\ resp' = IF session[i] = None
                 THEN [op |-> "me", status |-> 401, client |-> i]
                 ELSE IF SessionUser(i) \notin DOMAIN users
                        THEN [op |-> "me", status |-> 404, client |-> i]
                        ELSE [op |-> "me", status |-> 200, client |-> i,
                              user |-> WithoutPassword(users[SessionUser(i)])]
    /\ UNCHANGED <<cart, wishlist, viewed, nextId, now, req, users, products, session>>

----------------------------------------------------------------------------
(* POST /api/cart and POST /api/wishlist with the body as the client sent  *)
(* it: a body may name a userId of its own.                                *)

\* mutant: the userId of the body wins over that of the session
WithSessionUserMut(body, i) ==
    IF body.userId = "undefined" THEN [body EXCEPT !.userId = SessionUser(i)] ELSE body

\* { ...req.body, userId: req.session.userId }
WithSessionUser(body, i) == [body EXCEPT !.userId = SessionUser(i)]

\* the field body of the slot is a ghost: the body of the request
PostCart(i, body, conc) ==
    LET cartData == WithSessionUser(body, i) IN
    /\ requireAuth(i)
    /\ CanStart(i, conc)
    /\ req' = [req EXCEPT ![i] =
                 [op |-> "addToCart", pc |-> "select", n |-> nOps + 1,
                  u |-> cartData.userId, p |-> cartData.productId,
                  q |-> cartData.quantity, existing |-> {}, ret |-> {},
                  q0 |-> TotalQuantity(cartData.userId, cartData.productId),
                  ov |-> Overlaps(i, cartData.userId, cartData.productId),
                  pre |-> Some(ledger), body |-> Some(body)]]
    /\ nOps' = nOps + 1
    /\ UNCHANGED <<cart, wishlist, viewed, nextId, now, users, products, resp, session>>

PostWishlist(i, body, conc) ==
    LET wishlistData == WithSessionUser(body, i) IN
    /\ requireAuth(i)
    /\ CanStart(i, conc)
    /\ req' = [req EXCEPT ![i] =
                 [Idle EXCEPT !.op = "addToWishlist", !.pc = "select", !.n = nOps + 1,
                              !.u = wishlistData.userId, !.p = wishlistData.productId,
                              !.pre = Some(ledger), !.body = Some(body)]]
    /\ nOps' = nOps + 1
    /\ UNCHANGED <<cart, wishlist, viewed, nextId, now, users, products, resp, session>>

----------------------------------------------------------------------------
(* GET /api/cart and GET /api/wishlist: one SELECT each *)

getCartByUserId(u) == {r \in cart : r.userId = u /\ r.productId \in DOMAIN products}

getWishlistByUserId(u) == {r \in wishlist : r.userId = u /\ r.productId \in DOMAIN products}

CartRoute(i, u, conc) ==
    /\ CanStart(i, conc)
    /\ nOps' = nOps + 1
    /\ resp' = [op |-> "cart", status |-> 200, u |-> u, items |-> getCartByUserId(u)]
    /\ UNCHANGED <<cart, wishlist, viewed, nextId, now, req, users, products, session>>

WishlistRoute(i, u, conc) ==
    /\ CanStart(i, conc)
    /\ nOps' = nOps + 1
    /\ resp' = [op |-> "wishlist", status |-> 200, u |-> u, items |-> getWishlistByUserId(u)]
    /\ UNCHANGED <<cart, wishlist, viewed, nextId, now, req, users, products, session>>

----------------------------------------------------------------------------
(* GET /api/products/:id: one SELECT, then addViewedProduct when the       *)
(* request has a session.  The route is not behind requireAuth.            *)

\* storage.getProduct(id): the row, or undefined
getProduct(id) == IF id \in DOMAIN products THEN Some(products[id]) ELSE None

\* mutant: the view is recorded whether or not the session holds a userId
TracksViewMut(i) == TRUE

\* if (req.session.userId)
TracksView(i) == session[i] # None

ProductRoute(i, id, conc) ==
    /\ CanStart(i, conc)
    /\ IF getProduct(id) = None
         THEN /\ resp' = [op |-> "product", status |-> 404, client |-> i, id |-> id]
              /\ nOps' = nOps + 1
              /\ UNCHANGED <<cart, wishlist, viewed, nextId, now, req, users, products,
                             session>>
         ELSE IF TracksView(i)
                THEN RecordViewStart(i, SessionUser(i), getProduct(id)[1].id, conc)
                ELSE /\ resp' = [op |-> "product", status |-> 200, client |-> i, id |-> id]
                     /\ nOps' = nOps + 1
                     /\ UNCHANGED <<cart, wishlist, viewed, nextId, now, req, users,
                                    products, session>>

----------------------------------------------------------------------------
(* Text, and PostgreSQL's ILIKE *)

Text_Male   == <<"M", "a", "l", "e">>
Text_Female == <<"F", "e", "m", "a", "l", "e">>
Text_18_24  == <<"1", "8", "-", "2", "4">>
Text_25_34  == <<"2", "5", "-", "3", "4">>
Text_35_44  == <<"3", "5", "-", "4", "4">>
Text_45_54  == <<"4", "5", "-", "5", "4">>
Text_55plus == <<"5", "5", "+">>
Text_Eco    == <<"E", "c", "o">>
Text_Bag    == <<"B", "a", "g">>
Text_eco    == <<"e", "c", "o">>

UpperCase == <<"A", "B", "C", "D", "E", "F", "G", "H", "I", "J", "K", "L", "M",
               "N", "O", "P", "Q", "R", "S", "T", "U", "V", "W", "X", "Y", "Z">>
LowerCase == <<"a", "b", "c", "d", "e", "f", "g", "h", "i", "j", "k", "l", "m",
               "n", "o", "p", "q", "r", "s", "t", "u", "v", "w", "x", "y", "z">>

Lower(c) ==
    IF \E k \in DOMAIN UpperCase : UpperCase[k] = c
      THEN LowerCase[CHOOSE k \in DOMAIN UpperCase : UpperCase[k] = c]
      ELSE c

\* s ILIKE pat: % is any run of characters, _ any one character, \ quotes the
\* next character, every other character matches itself whatever its case
RECURSIVE ILike(_, _)
ILike(s, pat) ==
    IF pat = <<>> THEN s = <<>>
    ELSE IF Head(pat) = "%"
      THEN ILike(s, Tail(pat)) \/ (s # <<>> /\ ILike(Tail(s), pat))
    ELSE IF Head(pat) = "_"
      THEN s # <<>> /\ ILike(Tail(s), Tail(pat))
    ELSE IF Head(pat) = "\\" /\ Len(pat) >= 2
      THEN s # <<>> /\ Lower(Head(s)) = Lower(pat[2]) /\ ILike(Tail(s), Tail(Tail(pat)))
    ELSE s # <<>> /\ Lower(Head(s)) = Lower(Head(pat)) /\ ILike(Tail(s), Tail(pat))

\* the template literal `%${x}%`
Wrap(x) == <<"%">> \o x \o <<"%">>

\* ilike(column, `%${x}%`) on a nullable column: NULL never matches
ColumnILike(col, x) == col # None /\ ILike(col[1], Wrap(x))

\* eq(column, x) on a nullable column: NULL never matches
ColumnEq(col, x) == col # None /\ col[1] = x

----------------------------------------------------------------------------
(* Catalog Query Layer: the SELECTs over table products *)

DefaultLimit == 20

\* ORDER BY eco_score DESC: row a has to come before row b.  PostgreSQL puts
\* NULL first in a descending sort; rows that compare equal come in any order.
ComesBefore(a, b) ==
    IF a.ecoScore = None THEN b.ecoScore # None
    ELSE b.ecoScore # None /\ a.ecoScore[1] > b.ecoScore[1]

\* the orders in which the database may return the rows `ids`
Orderings(ids) ==
    {s \in [1..Cardinality(ids) -> ids] :
        /\ \A i, j \in DOMAIN s : i # j => s[i] # s[j]
        /\ \A i, j \in DOMAIN s :
              i < j => ~ComesBefore(products[s[j]], products[s[i]])}

\* LIMIT limit OFFSET offset
Page(s, limit, offset) ==
    SubSeq(s, offset + 1, IF offset + limit < Len(s) THEN offset + limit ELSE Len(s))

\* category && category !== "all"
HasCategoryFilter(category) == category # None /\ category[1] # "" /\ category[1] # "all"

CategoryMatch(pr, category) ==
    HasCategoryFilter(category) => ColumnEq(pr.category, category[1])

\* storage.getProducts(limit, offset, category): the possible results
getProducts(limit, offset, category) ==
    {Page(s, limit, offset) :
        s \in Orderings({id \in DOMAIN products : CategoryMatch(products[id], category)})}

\* or(ilike(title, `%${query}%`), ilike(text, `%${query}%`))
TextMatch(pr, query) ==
    ColumnILike(Some(pr.title), query) \/ ColumnILike(pr.text, query)

\* storage.searchProducts(query, limit, offset, category): the possible results
searchProducts(query, limit, offset, category) ==
    {Page(s, limit, offset) :
        s \in Orderings({id \in DOMAIN products :
                            /\ TextMatch(products[id], query)
                            /\ CategoryMatch(products[id], category)})}

\* mutant: the bucket boundaries are inclusive
AgeGroupMut(age) ==
    IF age <= 25 THEN Text_18_24
    ELSE IF age <= 35 THEN Text_25_34
    ELSE IF age <= 45 THEN Text_35_44
    ELSE IF age <= 55 THEN Text_45_54
    ELSE Text_55plus

\* the age bucket of getRecommendedProducts
AgeGroup(age) ==
    IF age < 25 THEN Text_18_24
    ELSE IF age < 35 THEN Text_25_34
    ELSE IF age < 45 THEN Text_35_44
    ELSE IF age < 55 THEN Text_45_54
    ELSE Text_55plus

\* or(eq(col, x), ilike(col, `%${x}%`), col IS NULL)
TargetMatch(col, x) == ColumnEq(col, x) \/ ColumnILike(col, x) \/ col = None

\* the WHERE clause of getRecommendedProducts
RecommendMatch(pr, ageGroup, gender) ==
    TargetMatch(pr.ageTarget, ageGroup) /\ TargetMatch(pr.genderTarget, gender)

\* storage.getRecommendedProducts(age, gender, limit): the possible results
getRecommendedProducts(age, gender, limit) ==
    {Page(s, limit, 0) :
        s \in Orderings({id \in DOMAIN products :
                            RecommendMatch(products[id], AgeGroup(age), gender)})}

----------------------------------------------------------------------------
(* The catalog routes.  A numeric query parameter is <<>> when absent,     *)
(* <<n>> when its text is the integer n, and a text of several characters *)
(* when it is not a number.                                                *)

NonNumeric == <<"a", "b", "c">>

\* parseInt(x) is NaN: x is absent or is not a number
IsNaN(x) == x = None \/ Len(x) > 1

\* parseInt(req.query.limit) || 20 : NaN and 0 are falsy
ParseLimit(l) == IF IsNaN(l) \/ l[1] = 0 THEN DefaultLimit ELSE l[1]

\* parseInt(req.query.offset) || 0
ParseOffset(o) == IF IsNaN(o) THEN 0 ELSE o[1]

\* ghost: the parameter is given and is not a number, or is negative
Malformed(x) == x # None /\ (IsNaN(x) \/ x[1] < 0)

\* PostgreSQL rejects a negative LIMIT or OFFSET: the query throws
QueryThrows(limit, offset) == limit < 0 \/ offset < 0

\* GET /api/products; malformed, queried, rawLimit and rawOffset are ghosts:
\* rawLimit and rawOffset are the parameters as the request gave them
ProductsRoute(search, category, limit, offset, max) ==
    /\ \A i \in Procs : ~InFlight(i)
    /\ nOps < max
    /\ nOps' = nOps + 1
    /\ IF QueryThrows(ParseLimit(limit), ParseOffset(offset))
         THEN resp' = [op |-> "products", status |-> 500, products |-> <<>>,
                       search |-> search, category |-> category,
                       limit |-> ParseLimit(limit), offset |-> ParseOffset(offset),
                       malformed |-> TRUE, queried |-> TRUE,
                       rawLimit |-> limit, rawOffset |-> offset]
         ELSE \E result \in IF search # None /\ search[1] # <<>>
                               THEN searchProducts(search[1], ParseLimit(limit),
                                                   ParseOffset(offset), category)
                               ELSE getProducts(ParseLimit(limit), ParseOffset(offset),
                                                category) :
                resp' = [op |-> "products", status |-> 200, products |-> result,
                         search |-> search, category |-> category,
                         limit |-> ParseLimit(limit), offset |-> ParseOffset(offset),
                         malformed |-> Malformed(limit) \/ Malformed(offset),
                         queried |-> TRUE,
                         rawLimit |-> limit, rawOffset |-> offset]
    /\ UNCHANGED <<cart, wishlist, viewed, nextId, now, req, users, products, session>>

\* GET /api/products/demographic; ageGiven and genderGiven are ghosts: what
\* the request supplied
DemographicRoute(age, gender, limit, max) ==
    LET given == [ageGiven |-> IF age = None THEN "missing"
                               ELSE IF IsNaN(age) THEN "non-numeric" ELSE "integer",
                  genderGiven |-> gender # None /\ gender[1] # <<>>,
                  malformed |-> Malformed(age) \/ Malformed(limit)]
        answer(status, queried, result) ==
            [op |-> "demographic", status |-> status, products |-> result,
             age |-> IF IsNaN(age) THEN 0 ELSE age[1],
             ageGroup |-> IF IsNaN(age) THEN <<>> ELSE AgeGroup(age[1]),
             gender |-> IF gender = None THEN <<>> ELSE gender[1],
             limit |-> ParseLimit(limit), queried |-> queried,
             ageGiven |-> given.ageGiven, genderGiven |-> given.genderGiven,
             malformed |-> given.malformed]
    IN
    /\ \A i \in Procs : ~InFlight(i)
    /\ nOps < max
    /\ nOps' = nOps + 1
    /\ IF IsNaN(age) \/ age[1] = 0 \/ gender = None \/ gender[1] = <<>>
         THEN resp' = answer(400, FALSE, <<>>)
         ELSE IF QueryThrows(ParseLimit(limit), 0)
                THEN resp' = answer(500, TRUE, <<>>)
                ELSE \E result \in getRecommendedProducts(age[1], gender[1],
                                                          ParseLimit(limit)) :
                       resp' = answer(200, TRUE, result)
    /\ UNCHANGED <<cart, wishlist, viewed, nextId, now, req, users, products, session>>

\* the place of a category label in the collation of ORDER BY category
LabelRank(c) == CASE c = "" -> 0 [] c = "home" -> 1 [] c = "toys" -> 2

\* mutant: the WHERE clause keeps the empty label
CategoryKeptMut(col) == col # None

\* category IS NOT NULL AND category != ''
CategoryKept(col) == col # None /\ col[1] # ""

\* storage.getCategories: SELECT DISTINCT category ... ORDER BY category
getCategories ==
    LET labels == {products[id].category[1] :
                      id \in {x \in DOMAIN products : CategoryKept(products[x].category)}}
    IN  CHOOSE s \in [1..Cardinality(labels) -> labels] :
            \A j, k \in DOMAIN s : j < k => LabelRank(s[j]) < LabelRank(s[k])

\* GET /api/products/categories
CategoriesRoute(max) ==
    /\ \A i \in Procs : ~InFlight(i)
    /\ nOps < max
    /\ nOps' = nOps + 1
    /\ resp' = [op |-> "categories", status |-> 200, categories |-> getCategories]
    /\ UNCHANGED <<cart, wishlist, viewed, nextId, now, req, users, products, session>>

\* mutant: products already in the user's cart are left out
PersonalizedResultsMut(u, limit) ==
    {Page(s, limit, 0) :
        s \in Orderings({id \in DOMAIN products :
                            /\ RecommendMatch(products[id], AgeGroup(users[u].age),
                                              users[u].gender)
                            /\ SelectPair(cart, u, id) = {}})}

\* the product lists GET /api/products/recommendations may answer for user u
PersonalizedResults(u, limit) ==
    getRecommendedProducts(users[u].age, users[u].gender, limit)

\* GET /api/products/recommendations, for the session user u
RecommendationsRoute(u, limit, max) ==
    /\ \A i \in Procs : ~InFlight(i)
    /\ nOps < max
    /\ nOps' = nOps + 1
    /\ IF u \notin DOMAIN users
         THEN resp' = [op |-> "recommendations", status |-> 404, products |-> <<>>,
                       u |-> u, limit |-> ParseLimit(limit)]
         ELSE \E result \in PersonalizedResults(u, ParseLimit(limit)) :
                resp' = [op |-> "recommendations", status |-> 200, products |-> result,
                         u |-> u, limit |-> ParseLimit(limit)]
    /\ UNCHANGED <<cart, wishlist, viewed, nextId, now, req, users, products, session>>

----------------------------------------------------------------------------
(* Specifications *)

NoResp == [op |-> "none"]

ProductRow(id, title, text, ecoScore, ageTarget, genderTarget, category) ==
    [id |-> id, title |-> title, text |-> text, ecoScore |-> ecoScore,
     ageTarget |-> ageTarget, genderTarget |-> genderTarget, category |-> category]

TitleOf == [p \in ProductIds |-> IF p = "p1" THEN Text_Eco ELSE Text_Bag]
TextOf  == [p \in ProductIds |-> IF p = "p1" THEN None ELSE Some(Text_eco)]

\* the catalog of the ledger runs
DemoCatalog ==
    [p \in ProductIds |->
        IF p = "p1"
          THEN ProductRow(p, TitleOf[p], TextOf[p], Some(2), Some(Text_25_34),
                          Some(Text_Male), Some("home"))
          ELSE ProductRow(p, TitleOf[p], TextOf[p], None, None,
                          Some(Text_Female), Some("toys"))]

Emails == {"a@x.com", "b@x.com"}
Passwords == {"p", "q"}

DemoUsers ==
    [u \in UserIds |->
        IF u = "u1" THEN [id |-> u, email |-> "a@x.com", password |-> bcryptHash("p"),
                          age |-> 30, gender |-> Text_Male]
                    ELSE [id |-> u, email |-> "b@x.com", password |-> bcryptHash("q"),
                          age |-> 22, gender |-> Text_Female]]

\* empty tables, no request, no session
InitTables ==
    /\ cart = {} /\ wishlist = {} /\ viewed = {}
    /\ nextId = 1 /\ now = 1 /\ nOps = 0
    /\ req = [i \in Procs |-> Idle]
    /\ resp = NoResp
    /\ session = [i \in Procs |-> None]

\* the ledger runs start behind requireAuth, with the users signed up: the u
\* of a request is the userId its session holds
InitLedger ==
    /\ InitTables
    /\ users = DemoUsers

Init ==
    /\ InitLedger
    /\ products = DemoCatalog

\* the requests a slot accepts
Accept(i, conc) ==
    \E u \in UserIds, p \in ProductIds :
        \/ \E q \in (IF conc THEN ConcAddQtyArgs ELSE AddQtyArgs) :
              AddToCartStart(i, u, p, q, conc)
        \/ RemoveFromCart(i, u, p, conc)
        \/ \E q \in (IF conc THEN ConcUpdQtyArgs ELSE UpdQtyArgs) :
              UpdateCartQuantity(i, u, p, q, conc)
        \/ AddToWishlistStart(i, u, p, conc)
        \/ RemoveFromWishlist(i, u, p, conc)
        \/ RecordViewStart(i, u, p, conc)

\* the statements of the handlers in flight
Step(i) ==
    \/ AddToCartSelect(i)
    \/ AddToCartWrite(i)
    \/ AddToWishlistSelect(i)
    \/ AddToWishlistInsert(i)
    \/ RecordViewDelete(i)
    \/ RecordViewInsert(i)

\* requests overlap freely
Next == \E i \in Procs : Accept(i, TRUE) \/ Step(i)

Spec == Init /\ [][Next]_vars

LimitArgs == {None, Some(1)}

\* one request at a time: each call completes before the next starts
NextSeq ==
    \/ \E i \in SeqProcs : Accept(i, FALSE) \/ Step(i)
    \/ \E u \in UserIds, l \in LimitArgs : RecommendationsRoute(u, l, MaxSeqOps)

SpecSeq == Init /\ [][NextSeq]_vars

\* one request at a time, where any statement may throw
NextFail ==
    \E i \in SeqProcs :
        \/ Accept(i, FALSE)
        \/ Step(i)
        \/ StatementFails(i)
        \/ \E u \in UserIds, p \in ProductIds, q \in UpdQtyArgs :
              UpdateCartQuantityFails(i, u, p, q, FALSE)

SpecFail == Init /\ [][NextFail]_vars

\* no user has signed up yet
InitAuth ==
    /\ InitTables
    /\ users = <<>>
    /\ products = DemoCatalog

SignupBodies == [email : Emails, password : Passwords, age : {30}, gender : {Text_Male}]

\* the routes behind requireAuth, and the responses they give
LedgerOps == {"addToCart", "removeFromCart", "updateCartQuantity", "addToWishlist",
              "removeFromWishlist"}
ReadOps == {"cart", "wishlist", "viewed", "recommendations"}
ProtectedOps == LedgerOps \cup ReadOps

\* a request of client i to a route behind requireAuth
Protected(i) ==
    \/ \E op \in ProtectedOps : Unauthorized(i, op, TRUE)
    \/ /\ requireAuth(i)
       /\ \E p \in ProductIds :
             \/ \E q \in ConcAddQtyArgs : AddToCartStart(i, SessionUser(i), p, q, TRUE)
             \/ RemoveFromCart(i, SessionUser(i), p, TRUE)
             \/ \E q \in ConcUpdQtyArgs : UpdateCartQuantity(i, SessionUser(i), p, q, TRUE)
             \/ AddToWishlistStart(i, SessionUser(i), p, TRUE)
             \/ RemoveFromWishlist(i, SessionUser(i), p, TRUE)
    \/ /\ requireAuth(i)
       /\ \/ CartRoute(i, SessionUser(i), TRUE)
          \/ WishlistRoute(i, SessionUser(i), TRUE)
          \/ ViewHistoryRoute(i, SessionUser(i), TRUE)
          \/ \E l \in LimitArgs : RecommendationsRoute(SessionUser(i), l, MaxOps)

\* one client: it signs up, logs in and out, and uses the protected routes
NextAuth ==
    \E i \in SeqProcs :
        \/ \E body \in SignupBodies : SignupStart(i, body, TRUE)
        \/ SignupSelect(i)
        \/ SignupInsert(i)
        \/ \E e \in Emails, pw \in Passwords : Login(i, e, pw, TRUE)
        \/ Logout(i, TRUE)
        \/ Me(i, TRUE)
        \/ Protected(i)
        \/ AddToCartSelect(i)
        \/ AddToCartWrite(i)
        \/ AddToWishlistSelect(i)
        \/ AddToWishlistInsert(i)

SpecAuth == InitAuth /\ [][NextAuth]_vars

\* two clients whose signups, logins and logouts overlap
NextSignup ==
    \E i \in Procs :
        \/ \E body \in SignupBodies : SignupStart(i, body, TRUE)
        \/ SignupSelect(i)
        \/ SignupInsert(i)
        \/ \E e \in Emails, pw \in Passwords : Login(i, e, pw, TRUE)
        \/ Logout(i, TRUE)

SpecSignup == InitAuth /\ [][NextSignup]_vars

\* the view history alone: views and reads of the history overlap freely
NextViews ==
    \E i \in Procs :
        \/ \E u \in UserIds, p \in ProductIds : RecordViewStart(i, u, p, TRUE)
        \/ RecordViewDelete(i)
        \/ RecordViewInsert(i)
        \/ \E u \in UserIds : ViewHistoryRoute(i, u, TRUE)

SpecViews == Init /\ [][NextViews]_vars

\* the ids asked of GET /api/products/:id: the products, and an id of none
ProductIdArgs == ProductIds \cup {"p9"}

\* two clients that log in and out and open product pages
NextProduct ==
    \E i \in Procs :
        \/ \E e \in Emails, pw \in Passwords : Login(i, e, pw, TRUE)
        \/ Logout(i, TRUE)
        \/ \E id \in ProductIdArgs : ProductRoute(i, id, TRUE)
        \/ RecordViewDelete(i)
        \/ RecordViewInsert(i)

SpecProduct == Init /\ [][NextProduct]_vars

\* the view history of u1 after views of three products, one after the other;
\* then one client views, views again and reads the histories
HistoryProductIds == {"p1", "p2", "p3"}

\* u1 has viewed the first k of p1, p2, p3, in that order
InitHistory ==
    /\ cart = {} /\ wishlist = {}
    /\ \E k \in 0..3 :
          /\ viewed = {NewViewRow(j, "u1", <<"p1", "p2", "p3">>[j], j) : j \in 1..k}
          /\ nextId = k + 1 /\ now = k + 1
    /\ nOps = 0
    /\ req = [i \in Procs |-> Idle]
    /\ resp = NoResp
    /\ session = [i \in Procs |-> None]
    /\ users = DemoUsers
    /\ products = [p \in HistoryProductIds |->
                      ProductRow(p, Text_Eco, None, Some(1), None, None, None)]

NextHistory ==
    \E i \in SeqProcs :
        \/ \E u \in UserIds, p \in HistoryProductIds : RecordViewStart(i, u, p, TRUE)
        \/ RecordViewDelete(i)
        \/ RecordViewInsert(i)
        \/ \E u \in UserIds : ViewHistoryRoute(i, u, TRUE)

SpecHistory == InitHistory /\ [][NextHistory]_vars

\* two clients that are logged in, each as one of the users, and write p1 to
\* the cart and the wishlist with bodies that name no userId, their own or
\* another
BodyUserIds == UserIds \cup {"undefined"}
CartBodies == [userId : BodyUserIds, productId : {"p1"}, quantity : {None}]

InitScoped ==
    /\ cart = {} /\ wishlist = {} /\ viewed = {}
    /\ nextId = 1 /\ now = 1 /\ nOps = 0
    /\ req = [i \in Procs |-> Idle]
    /\ resp = NoResp
    /\ session \in [Procs -> {Some(u) : u \in UserIds}]
    /\ users = DemoUsers
    /\ products = DemoCatalog

NextScoped ==
    \E i \in Procs :
        \/ \E b \in CartBodies : PostCart(i, b, TRUE)
        \/ \E b \in CartBodies : PostWishlist(i, b, TRUE)
        \/ requireAuth(i) /\ RemoveFromCart(i, SessionUser(i), "p1", TRUE)
        \/ \E q \in ConcUpdQtyArgs :
              requireAuth(i) /\ UpdateCartQuantity(i, SessionUser(i), "p1", q, TRUE)
        \/ requireAuth(i) /\ RemoveFromWishlist(i, SessionUser(i), "p1", TRUE)
        \/ AddToCartSelect(i)
        \/ AddToCartWrite(i)
        \/ AddToWishlistSelect(i)
        \/ AddToWishlistInsert(i)

SpecScoped == InitScoped /\ [][NextScoped]_vars

\* the catalog alone, queried by anonymous requests: two products that
\* differ in score and category, or in score and targets
EcoScores     == {None, Some(1), Some(2)}
AgeTargets    == {None, Some(Text_18_24), Some(Text_25_34)}
GenderTargets == {None, Some(Text_Male), Some(Text_Female)}
Categories    == {None, Some("home"), Some("toys")}

Catalogs ==
    [ProductIds -> [ecoScore : EcoScores, ageTarget : {None},
                    genderTarget : {None}, category : Categories]]
    \cup
    [ProductIds -> [ecoScore : {Some(1)}, ageTarget : AgeTargets,
                    genderTarget : GenderTargets, category : {Some("home")}]]

InitCatalog ==
    /\ InitLedger
    /\ \E c \in Catalogs :
          products = [p \in ProductIds |->
                        ProductRow(p, TitleOf[p], TextOf[p], c[p].ecoScore, c[p].ageTarget,
                                   c[p].genderTarget, c[p].category)]

SearchArgs   == {None, Some(Text_eco)}
CategoryArgs == {None, Some("all"), Some("home")}
OffsetArgs   == {None, Some(1)}
AgeArgs      == {None, Some(0), Some(24), Some(25), Some(34), Some(35), Some(44),
                 Some(45), Some(54), Some(55)}
GenderArgs   == {None, Some(Text_Male), Some(Text_Female)}

NextCatalog ==
    \/ \E s \in SearchArgs, c \in CategoryArgs, l \in LimitArgs, o \in OffsetArgs :
          ProductsRoute(s, c, l, o, MaxQueries)
    \/ \E a \in AgeArgs, g \in GenderArgs, l \in LimitArgs : DemographicRoute(a, g, l, MaxQueries)

SpecCatalog == InitCatalog /\ [][NextCatalog]_vars

\* the catalog as a visitor browses it: products whose category may be null or
\* empty, searched with queries that are empty, blank, a word, or a character
\* ILIKE reads as a wildcard
CategoryLabels == {None, Some(""), Some("home"), Some("toys")}
QueryArgs      == {None, Some(<<>>), Some(<<" ">>), Some(Text_eco), Some(<<"_">>),
                   Some(<<"%">>)}
PageLimitArgs  == {None, Some(0), Some(1)}

\* p2 has score 1; p1 has none, the same or a higher one
InitBrowse ==
    /\ InitLedger
    /\ \E e \in EcoScores, c \in [ProductIds -> CategoryLabels] :
          products = [p \in ProductIds |->
                        ProductRow(p, TitleOf[p], TextOf[p],
                                   IF p = "p1" THEN e ELSE Some(1), None, None, c[p])]

NextBrowse ==
    \/ \E s \in QueryArgs, c \in CategoryArgs, l \in PageLimitArgs, o \in OffsetArgs :
          ProductsRoute(s, c, l, o, MaxQueries)
    \/ CategoriesRoute(MaxQueries)

SpecBrowse == InitBrowse /\ [][NextBrowse]_vars

\* the catalog routes queried with absent, numeric, non-numeric and negative
\* parameters
RawLimitArgs  == {None, Some(1), Some(-1), NonNumeric}
RawOffsetArgs == {None, Some(1), Some(-1), NonNumeric}
RawAgeArgs    == {None, Some(0), Some(22), Some(30), NonNumeric}
RawGenderArgs == {None, Some(<<>>), Some(Text_Male)}

NextParams ==
    \/ \E s \in SearchArgs, c \in CategoryArgs, l \in RawLimitArgs, o \in RawOffsetArgs :
          ProductsRoute(s, c, l, o, MaxQueries)
    \/ \E a \in RawAgeArgs, g \in RawGenderArgs, l \in RawLimitArgs :
          DemographicRoute(a, g, l, MaxQueries)

SpecParams == Init /\ [][NextParams]_vars

----------------------------------------------------------------------------
(* Properties of the Activity Ledger *)

Pairs == UserIds \X ProductIds

RowsOf(table, pair) == SelectPair(table, pair[1], pair[2])

\* the amount a POST /api/cart body asks for: quantity, 1 when omitted
RequestedAmount(q) == IF q = None THEN 1 ELSE q[1]

\* slot i has just answered request `op`
Answered(i, op) == req[i].op = op /\ req[i].pc = "done"

\* C1: with one request at a time, no (userId, productId) pair ever has more
\* than one row in cart, in wishlist or in viewed_products.
C1_AtMostOneRowPerPair ==
    \A pair \in Pairs :
        /\ Cardinality(RowsOf(cart, pair)) <= 1
        /\ Cardinality(RowsOf(wishlist, pair)) <= 1
        /\ Cardinality(RowsOf(viewed, pair)) <= 1

\* a pair was added to the cart twice and still has the one row of the first add
C1_Witness ==
    /\ Answered(1, "addToCart") /\ req[1].n = 2
    /\ \E r \in cart : r.id = 1 /\ r.quantity = 2 /\ req[1].ret = {r}
    /\ Cardinality(cart) = 1

\* C2: two overlapping AddToCart requests on one pair lose no increment: once
\* both have answered, the pair's total quantity is the quantity before them
\* plus the two requested amounts (stated for positive amounts).
C2_NoLostIncrement ==
    \A i, j \in Procs :
        ( /\ i # j
          /\ Answered(i, "addToCart") /\ Answered(j, "addToCart")
          /\ req[i].u = req[j].u /\ req[i].p = req[j].p
          /\ req[j].n < req[i].n /\ req[i].ov
          /\ req[i].q0 = req[j].q0
          /\ RequestedAmount(req[i].q) > 0 /\ RequestedAmount(req[j].q) > 0 )
        => TotalQuantity(req[i].u, req[i].p)
             = req[j].q0 + RequestedAmount(req[i].q) + RequestedAmount(req[j].q)

\* C3: whatever the interleaving of the add requests, no relation ever holds
\* two rows of one (userId, productId) pair.
C3_NoDuplicateRowConcurrent ==
    \A table \in {cart, wishlist, viewed} :
        \A r1, r2 \in table :
            (r1.userId = r2.userId /\ r1.productId = r2.productId) => r1.id = r2.id

\* C4: an AddToCart(u, p, q) that finds a row of the pair makes its quantity
\* the old quantity + q and returns that row; one that finds none leaves one
\* new row of quantity q (q is 1 when omitted).
C4_AddToCartEffect ==
    [][\A i \in SeqProcs :
          (req[i].op = "addToCart" /\ req[i].pc = "write" /\ req'[i].pc = "done") =>
            LET old == SelectPair(cart, req[i].u, req[i].p)
                new == SelectPair(cart', req[i].u, req[i].p)
                amount == RequestedAmount(req[i].q)
            IN  /\ req'[i].ret = new
                /\ IF old # {}
                     THEN new = {[o EXCEPT !.quantity = o.quantity + amount] : o \in old}
                     ELSE \E r \in new : new = {r} /\ r.quantity = amount]_vars

\* C5: every cart row has quantity >= 1.
C5_QuantityAtLeastOne == \A r \in cart : r.quantity >= 1

\* C10: UpdateCartQuantity(u, p, q) with q <= 0 and RemoveFromCart(u, p) leave
\* the same state: the cart without the rows of (u, p), everything else as it was.
C10_UpdateNonPositiveIsRemove ==
    [][\A i \in Procs :
          ( /\ req'[i].n = nOps + 1 /\ nOps' = nOps + 1
            /\ \/ req'[i].op = "removeFromCart"
               \/ req'[i].op = "updateCartQuantity" /\ req'[i].q[1] <= 0 ) =>
            /\ req'[i].pc = "done"
            /\ cart' = {r \in cart : ~(r.userId = req'[i].u /\ r.productId = req'[i].p)}
            /\ SelectPair(cart', req'[i].u, req'[i].p) = {}
            /\ UNCHANGED <<wishlist, viewed, nextId, now, users, products>>]_vars

\* an UpdateCartQuantity with quantity 0 has removed a pair that was in the cart
C10_Witness ==
    /\ Answered(1, "updateCartQuantity") /\ req[1].q = Some(0)
    /\ req[1].q0 > 0
    /\ SelectPair(cart, req[1].u, req[1].p) = {}

\* C11: UpdateCartQuantity(u, p, q) with q > 0 makes the quantity of the pair's
\* row exactly q whatever it was, so that a second application changes
\* nothing; when the pair has no row it creates none.
C11_UpdateSetsQuantity ==
    [][\A i \in SeqProcs :
          ( /\ req'[i].n = nOps + 1 /\ nOps' = nOps + 1
            /\ req'[i].op = "updateCartQuantity" /\ req'[i].q[1] > 0 ) =>
            LET u == req'[i].u
                p == req'[i].p
                q == req'[i].q[1]
                old == {r \in cart : r.userId = u /\ r.productId = p}
                new == {r \in cart' : r.userId = u /\ r.productId = p}
            IN  /\ new = {[o EXCEPT !.quantity = q] : o \in old}
                /\ cart' \ new = cart \ old
                /\ old = {} => cart' = cart
                /\ updateCartQuantity(cart', u, p, q) = cart'
                /\ UNCHANGED <<wishlist, viewed, nextId, now>>]_vars

\* an UpdateCartQuantity with quantity 2 has acted on a pair whose row held 1
C11_Witness ==
    /\ Answered(1, "updateCartQuantity") /\ req[1].q = Some(2)
    /\ req[1].q0 = 1
    /\ \E r \in cart : /\ r.userId = req[1].u /\ r.productId = req[1].p
                       /\ r.quantity = 2 /\ cart = {r}

\* C12: an AddToWishlist(u, p) that finds the pair in the wishlist leaves the
\* wishlist as it is and returns the row the first call created.
C12_AddToWishlistIdempotent ==
    [][\A i \in SeqProcs :
          (req[i].op = "addToWishlist" /\ req[i].pc # "done" /\ req'[i].pc = "done") =>
            LET old == {r \in wishlist : r.userId = req[i].u /\ r.productId = req[i].p}
                new == {r \in wishlist' : r.userId = req[i].u /\ r.productId = req[i].p}
            IN  /\ req'[i].ret = new
                /\ Cardinality(new) = 1
                /\ old # {} => (wishlist' = wishlist /\ nextId' = nextId)]_vars

\* the second AddToWishlist of a pair has returned the row of the first
C12_Witness ==
    /\ Answered(1, "addToWishlist") /\ req[1].n = 2
    /\ req[1].ret = wishlist
    /\ wishlist = {NewWishlistRow(1, req[1].u, req[1].p)}

\* C13: after RecordView(u, p) has answered, whether for the first time or
\* again, the pair has exactly one view row, and its viewedAt is the time of
\* this last call, later than every other view.
C13_OneViewRowLatestTime ==
    \A i \in SeqProcs :
        Answered(i, "addViewedProduct") =>
            LET rows == {r \in viewed : r.userId = req[i].u /\ r.productId = req[i].p}
            IN  /\ rows = req[i].ret
                /\ \E r \in rows :
                      /\ rows = {r}
                      /\ r.viewedAt = now - 1
                      /\ \A o \in viewed \ {r} : o.viewedAt < r.viewedAt

\* a pair viewed twice holds the one row of the second view
C13_Witness ==
    /\ Answered(1, "addViewedProduct") /\ req[1].n = 2
    /\ \E r \in viewed : viewed = {r} /\ r.id = 2 /\ r.viewedAt = 2

\* C15: when a statement of AddToCart, AddToWishlist, UpdateCartQuantity or
\* RecordView throws, cart, wishlist and viewed_products are as they were
\* when the request was accepted.
C15_FailedWriteChangesNothing ==
    \A i \in SeqProcs : req[i].pc = "failed" => req[i].pre = Some(ledger)

\* C27: RemoveFromCart(u, p) and RemoveFromWishlist(u, p) answer without
\* error; they delete the rows of (u, p) from their table and nothing else,
\* so that on a pair without a row the whole persisted state is unchanged.
C27_RemoveExactlyPair ==
    [][\A i \in SeqProcs :
          ( /\ req'[i].n = nOps + 1 /\ nOps' = nOps + 1
            /\ req'[i].op \in {"removeFromCart", "removeFromWishlist"} ) =>
            LET ofPair(r) == r.userId = req'[i].u /\ r.productId = req'[i].p
                inCart == req'[i].op = "removeFromCart"
            IN  /\ req'[i].pc = "done"
                /\ cart' = IF inCart THEN {r \in cart : ~ofPair(r)} ELSE cart
                /\ wishlist' = IF inCart THEN wishlist ELSE {r \in wishlist : ~ofPair(r)}
                /\ UNCHANGED <<viewed, users, products, nextId, now>>
                /\ (~\E r \in (IF inCart THEN cart ELSE wishlist) : ofPair(r)) =>
                      UNCHANGED <<cart, wishlist, viewed, users, products>>]_vars

\* a RemoveFromCart of a pair without a row has left the row of another
\* user's pair of the same product in the cart
C27_Witness ==
    /\ Answered(1, "removeFromCart") /\ req[1].n = 2 /\ req[1].q0 = 0
    /\ \E r \in cart : cart = {r} /\ r.productId = req[1].p /\ r.userId # req[1].u

\* the arrangements of view rows with the latest view first
LatestFirst(rows) ==
    {s \in [1..Cardinality(rows) -> rows] :
        /\ \A j, k \in DOMAIN s : j # k => s[j] # s[k]
        /\ \A j, k \in DOMAIN s : j < k => s[j].viewedAt >= s[k].viewedAt}

\* the products of a sequence of view rows, in its order
ProductsOf(s) == [k \in DOMAIN s |-> s[k].productId]

\* the sequence s without the element x
RECURSIVE Without(_, _)
Without(s, x) ==
    IF s = <<>> THEN <<>>
    ELSE IF Head(s) = x THEN Without(Tail(s), x)
    ELSE <<Head(s)>> \o Without(Tail(s), x)

\* C28: ListViewHistory(u) answers the view rows of u, latest view first, so
\* that the product u viewed last is first; a RecordView(u, p) makes the
\* history of u p followed by the history as it was without p.
C28_HistoryLatestFirst ==
    [][\A i \in SeqProcs :
          /\ (resp'.op = "viewed" /\ nOps' = nOps + 1 /\ req' = req) =>
                LET items == resp'.items IN
                /\ {items[k] : k \in DOMAIN items} = {r \in viewed : r.userId = resp'.u}
                /\ \A j, k \in DOMAIN items :
                      j < k => items[j].viewedAt > items[k].viewedAt
                /\ (Answered(i, "addViewedProduct") /\ req[i].u = resp'.u) =>
                      items[1].productId = req[i].p
          /\ (req[i].op = "addViewedProduct" /\ req[i].pc = "insert"
                /\ req'[i].pc = "done") =>
                \A before \in LatestFirst({r \in req[i].pre[1][3] : r.userId = req[i].u}),
                   after \in getViewedProductsByUserId(req[i].u)' :
                    ProductsOf(after)
                      = <<req[i].p>> \o Without(ProductsOf(before), req[i].p)]_vars

\* u1, who had viewed p1, p2 and p3, has viewed p2 again and read a history
\* of p2, p3, p1
C28_Witness ==
    /\ resp.op = "viewed" /\ resp.u = "u1"
    /\ ProductsOf(resp.items) = <<"p2", "p3", "p1">>
    /\ Answered(1, "addViewedProduct") /\ req[1].q0 = 1

\* the relation an operation of the ledger works on
RelationOf(op) ==
    IF op \in {"addToCart", "removeFromCart", "updateCartQuantity"} THEN "cart"
    ELSE IF op \in {"addToWishlist", "removeFromWishlist"} THEN "wishlist"
    ELSE "viewed"

\* C30: a step of a ledger operation on (u, p) leaves the rows of every other
\* pair as they are in all three relations, leaves the two relations it does
\* not work on as they are, and leaves users and products as they are.
C30_OtherPairsUntouched ==
    [][\A i \in SeqProcs :
          req'[i] # req[i] =>
            LET other(t) == {r \in t : ~(r.userId = req'[i].u /\ r.productId = req'[i].p)}
                rel == RelationOf(req'[i].op)
            IN  /\ other(cart') = other(cart)
                /\ other(wishlist') = other(wishlist)
                /\ other(viewed') = other(viewed)
                /\ rel # "cart" => cart' = cart
                /\ rel # "wishlist" => wishlist' = wishlist
                /\ rel # "viewed" => viewed' = viewed
                /\ users' = users /\ products' = products]_vars

\* a user has viewed a second product and the view row of the first is there
C30_Witness ==
    /\ Answered(1, "addViewedProduct") /\ req[1].n = 2
    /\ \E r1, r2 \in viewed :
          /\ viewed = {r1, r2} /\ r1.id = 1 /\ r2.id = 2
          /\ r1.userId = r2.userId /\ r1.productId # r2.productId

\* C21: when a storage call fails inside an endpoint, the message of the
\* response differs from the message of the error the storage threw.
C21_ErrorTextNotReturned ==
    "error" \in DOMAIN resp => resp.message # resp.error

\* C14: a ListViewHistory(u) that runs while a RecordView(u, p) is replacing
\* the view row of a pair that had one never sees the pair without a row.
C14_NoPartialStateObserved ==
    resp.op = "viewed" =>
        \A p \in resp.running : \E k \in DOMAIN resp.items : resp.items[k].productId = p

----------------------------------------------------------------------------
(* Properties of the authentication boundary *)

\* client i sends a request to a route behind requireAuth in this step: its
\* handler starts in slot i, or the route answers at once
StartsHandler(i) ==
    req'[i].n = nOps + 1 /\ nOps' = nOps + 1 /\ req'[i].op \in LedgerOps

AnswersAtOnce(i) ==
    req' = req /\ nOps' = nOps + 1 /\ resp'.op \in ProtectedOps

\* C16: a request to a cart, wishlist, view-history or personalized
\* recommendation route from a client whose session holds no userId (never
\* logged in, or logged out) is answered 401 and touches no table; from a
\* client whose session holds a userId it runs for that userId.
C16_IdentityRequired ==
    [][\A i \in SeqProcs :
          (StartsHandler(i) \/ AnswersAtOnce(i)) =>
            IF session[i] = None
              THEN /\ AnswersAtOnce(i)
                   /\ resp' = [op |-> resp'.op, status |-> 401, client |-> i]
                   /\ UNCHANGED <<cart, wishlist, viewed, users, products, nextId, now,
                                   session>>
              ELSE /\ StartsHandler(i) => req'[i].u = session[i][1]
                   /\ AnswersAtOnce(i) =>
                         /\ resp'.status = 200
                         /\ resp'.u = session[i][1]
                   /\ session' = session]_vars

\* a client that signed up and logged out has been refused its cart
C16_Witness ==
    /\ DOMAIN users # {} /\ session[1] = None
    /\ resp = [op |-> "addToCart", status |-> 401, client |-> 1]
    /\ nOps = 3

\* C19: no two rows of users share an email, also when signups overlap; a
\* signup that completes while its email belongs to a user is answered 400,
\* adds no row and leaves the session as it was.
C19_UniqueEmail ==
    [][/\ \A a, b \in DOMAIN users' : users'[a].email = users'[b].email => a = b
       /\ \A i \in Procs :
            ( /\ req[i].op = "signup" /\ req[i].pc # "done" /\ req'[i].pc = "done"
              /\ \E id \in DOMAIN users : users[id].email = req[i].body[1].email ) =>
              /\ resp'.op = "signup" /\ resp'.client = i /\ resp'.status = 400
              /\ users' = users
              /\ session' = session]_vars

\* of two overlapping signups with one email, the second INSERT was rejected
C19_Witness ==
    /\ resp.op = "signup" /\ resp.status = 400
    /\ resp.message = "duplicate key value violates unique constraint"
    /\ Cardinality(DOMAIN users) = 1
    /\ \A i \in Procs : Answered(i, "signup")

\* the credentials of the answered login are those of a user
CredentialsMatch(g, table) ==
    \E id \in DOMAIN table :
        table[id].email = g.email /\ table[id].password = <<"$2b$10$", g.password>>

AuthResponses == {"signup", "login", "me"}

C22_ViewRecordedIffIdentified ==
    [][\A i \in Procs :
          /\ (nOps' = nOps + 1 /\ req' = req /\ resp'.op = "product" /\ resp'.client = i) =>
                /\ session[i] = None \/ resp'.id \notin DOMAIN products
                /\ resp'.status = (IF resp'.id \in DOMAIN products THEN 200 ELSE 404)
                /\ viewed' = viewed
          /\ (nOps' = nOps + 1 /\ req'[i].n = nOps + 1) =>
                /\ req'[i].op = "addViewedProduct"
                /\ session[i] = Some(req'[i].u)
                /\ req'[i].p \in DOMAIN products
          /\ (req[i].op = "addViewedProduct" /\ req[i].pc # "done" /\ req'[i].pc = "done") =>
                \E r \in viewed' : r.userId = req[i].u /\ r.productId = req[i].p]_vars

\* a logged-in client's view of a product has been recorded, and a request for
\* an id of no product has been answered 404
C22_Witness ==
    /\ resp.op = "product" /\ resp.status = 404
    /\ \E i \in Procs :
          /\ Answered(i, "addViewedProduct") /\ session[i] = Some(req[i].u)
          /\ viewed = req[i].ret /\ viewed # {}

\* C29: a step of a cart or wishlist request of a client changes, reads and
\* returns only rows whose userId is the userId of the client's session, also
\* when the body of a POST names another userId; so no request of another
\* user changes or is shown this user's cart and wishlist.
C29_SessionScopedWrites ==
    [][\A i \in Procs :
          req'[i] # req[i] =>
            /\ \A r \in (cart \ cart') \cup (cart' \ cart) : session[i] = Some(r.userId)
            /\ \A r \in (wishlist \ wishlist') \cup (wishlist' \ wishlist) :
                  session[i] = Some(r.userId)
            /\ \A r \in req'[i].existing : session[i] = Some(r.userId)
            /\ \A r \in req'[i].ret : session[i] = Some(r.userId)
            /\ session' = session]_vars

\* a client has posted a body naming the other user to the cart, and the cart
\* holds the one row of its own session user
C29_Witness ==
    \E i \in Procs :
        /\ Answered(i, "addToCart") /\ req[i].body # None
        /\ req[i].body[1].userId \in UserIds \ {SessionUser(i)}
        /\ \E r \in cart : /\ r.userId = SessionUser(i) /\ req[i].ret = {r}
                            /\ \E o \in cart : o.userId = req[i].body[1].userId /\ o # r

----------------------------------------------------------------------------
(* Properties of the Catalog Query Layer *)

HasNullScore(id) == products[id].ecoScore = None

Range(seq) == {seq[k] : k \in DOMAIN seq}

\* the products the filter of the answered list request selects
Candidates ==
    IF resp.op = "products"
      THEN {id \in DOMAIN products :
              /\ CategoryMatch(products[id], resp.category)
              /\ (resp.search # None /\ resp.search[1] # <<>>)
                    => TextMatch(products[id], resp.search[1])}
      ELSE {id \in DOMAIN products :
              RecommendMatch(products[id], resp.ageGroup, resp.gender)}

IsListing == resp.op \in {"products", "demographic"} /\ resp.status = 200

\* C6: in a result of List, Search or RecommendByDemographic no product with a
\* null ecoScore precedes one with a score, and a page holds a product with a
\* null ecoScore only when every scored candidate is in that page or before it.
C6_NullScoreLast ==
    IsListing =>
        /\ \A i, j \in DOMAIN resp.products :
              (i < j /\ HasNullScore(resp.products[i])) => HasNullScore(resp.products[j])
        /\ (\E id \in Range(resp.products) : HasNullScore(id)) =>
              LET scored == {id \in Candidates : ~HasNullScore(id)}
                  inPage == {id \in Range(resp.products) : ~HasNullScore(id)}
                  offset == IF resp.op = "products" THEN resp.offset ELSE 0
              IN  Cardinality(scored) <= offset + Cardinality(inPage)

\* sub occurs in s, character for character
Contains(s, sub) ==
    \E k \in 0..(Len(s) - Len(sub)) : SubSeq(s, k + 1, k + Len(sub)) = sub

\* a target column is null, equals x, or contains x as a substring
TargetAdmits(col, x) == col = None \/ col[1] = x \/ Contains(col[1], x)

\* C7: RecommendByDemographic returns only products whose ageTarget admits the
\* age bucket and whose genderTarget admits the given gender string.
C7_BothDimensions ==
    (resp.op = "demographic" /\ resp.status = 200) =>
        \A id \in Range(resp.products) :
            /\ TargetAdmits(products[id].ageTarget, resp.ageGroup)
            /\ TargetAdmits(products[id].genderTarget, resp.gender)

AgeLabels == <<Text_18_24, Text_25_34, Text_35_44, Text_45_54, Text_55plus>>

LabelIndex(label) == CHOOSE k \in DOMAIN AgeLabels : AgeLabels[k] = label

\* the ages the bucketing is tried on
AgeValues == {-3, 0, 17, 18, 24, 25, 26, 34, 35, 36, 44, 45, 46, 54, 55, 56, 120}

\* C8: the age bucketing gives "18-24" below 25, "25-34" from 25 below 35,
\* "35-44" from 35 below 45, "45-54" from 45 below 55 and "55+" from 55 on;
\* every age has a label, and the label never goes down as the age goes up.
C8_AgeBucket ==
    (resp.op = "demographic" /\ resp.status = 200) =>
        LET a == resp.age IN
        /\ a < 25 => resp.ageGroup = AgeLabels[1]
        /\ (25 <= a /\ a < 35) => resp.ageGroup = AgeLabels[2]
        /\ (35 <= a /\ a < 45) => resp.ageGroup = AgeLabels[3]
        /\ (45 <= a /\ a < 55) => resp.ageGroup = AgeLabels[4]
        /\ a >= 55 => resp.ageGroup = AgeLabels[5]
        /\ \A b \in AgeValues :
              /\ \E k \in DOMAIN AgeLabels : AgeGroup(b) = AgeLabels[k]
              /\ b <= a => LabelIndex(AgeGroup(b)) <= LabelIndex(resp.ageGroup)
              /\ b >= a => LabelIndex(AgeGroup(b)) >= LabelIndex(resp.ageGroup)

\* the demographic route has bucketed an age on the boundary of two buckets
C8_Witness ==
    /\ resp.op = "demographic" /\ resp.status = 200
    /\ resp.age = 35 /\ resp.ageGroup = Text_35_44

LowerText(s) == [k \in DOMAIN s |-> Lower(s[k])]

\* q is a substring of the column, whatever the case of the letters
SubstringOf(q, col) == col # None /\ Contains(LowerText(col[1]), LowerText(q))

\* the products a search for q under the category filter is to return
SearchCandidates(q, category) ==
    {id \in DOMAIN products :
        /\ SubstringOf(q, Some(products[id].title)) \/ SubstringOf(q, products[id].text)
        /\ category \notin {None, Some("all")} => products[id].category = category}

\* the length of the page at `offset` of `n` rows, `limit` rows a page
PageLength(n, limit, offset) ==
    IF n - offset <= 0 THEN 0 ELSE IF n - offset < limit THEN n - offset ELSE limit

\* C23: a search returns a page of exactly the products whose title or text
\* has the query as a substring, case ignored, and whose category equals the
\* filter when one other than "all" is given; also when the query holds % or _.
C23_SearchIsSubstringMatch ==
    ( /\ resp.op = "products" /\ resp.status = 200
      /\ resp.search # None /\ resp.search[1] # <<>> ) =>
        LET expected == SearchCandidates(resp.search[1], resp.category)
        IN  /\ Range(resp.products) \subseteq expected
            /\ Len(resp.products) =
                  PageLength(Cardinality(expected), resp.limit, resp.offset)

\* q is empty or holds nothing but spaces
Blank(q) == \A k \in DOMAIN q : q[k] = " "

\* C24: a search request whose query is empty or blank is answered with a
\* result of List for the same category, limit and offset.
C24_BlankSearchIsList ==
    ( /\ resp.op = "products" /\ resp.status = 200
      /\ resp.search # None /\ Blank(resp.search[1]) ) =>
        resp.products \in getProducts(resp.limit, resp.offset, resp.category)

\* the products List is to choose from under the category filter
ListCandidates(category) ==
    {id \in DOMAIN products :
        category \notin {None, Some("all")} => products[id].category = category}

\* the arrangements of the set S in which no scored product comes after one
\* of a lower score (where the products without a score go is the matter of C6)
DescendingByScore(S) ==
    {s \in [1..Cardinality(S) -> S] :
        /\ \A j, k \in DOMAIN s : j # k => s[j] # s[k]
        /\ \A j, k \in DOMAIN s :
              (j < k /\ ~HasNullScore(s[j]) /\ ~HasNullScore(s[k])) =>
                products[s[j]].ecoScore[1] >= products[s[k]].ecoScore[1]}

\* C25: List answers positions offset .. offset+limit-1 of the candidates
\* (every product when the category is unset or "all", else those of that
\* category) in descending order of ecoScore, limit being 20 and offset 0
\* when not given; the result never holds more than limit products.
C25_ListIsPageOfSorted ==
    (resp.op = "products" /\ resp.status = 200 /\ resp.search = None) =>
        LET limit  == IF resp.rawLimit = None THEN 20 ELSE resp.rawLimit[1]
            offset == IF resp.rawOffset = None THEN 0 ELSE resp.rawOffset[1]
        IN  /\ \E s \in DescendingByScore(ListCandidates(resp.category)) :
                  resp.products =
                    SubSeq(s, offset + 1,
                           IF offset + limit < Len(s) THEN offset + limit ELSE Len(s))
            /\ Len(resp.products) <= limit

\* C26: ListCategories answers every category label of the products that is
\* neither null nor empty, each once, in the order of the labels, and never
\* the empty label, whatever categories the products carry.
C26_CategoriesDistinctSorted ==
    resp.op = "categories" =>
        LET cs == resp.categories IN
        /\ Range(cs) = {products[id].category[1] :
                           id \in {x \in DOMAIN products :
                                     products[x].category \notin {None, Some("")}}}
        /\ \A j, k \in DOMAIN cs : j < k => LabelRank(cs[j]) < LabelRank(cs[k])
        /\ \A k \in DOMAIN cs : cs[k] \in {"home", "toys"}

\* the categories of a product without a label and one of "home" were listed
C26_Witness ==
    /\ resp.op = "categories" /\ resp.categories = <<"home">>
    /\ products["p1"].category = Some("") /\ products["p2"].category = Some("home")

\* C17: a request whose age is not a number, or whose limit or offset is not
\* a number or is negative, is answered 400 and no query reaches the storage.
C17_MalformedRejected ==
    (resp.op \in {"products", "demographic"} /\ resp.malformed) =>
        (resp.status = 400 /\ ~resp.queried)

\* C18: the demographic route answers 400 without a query when age or gender
\* is missing, and answers a product list when an integer age of at least 1
\* and a non-empty gender are given.
C18_DemographicAnswers ==
    resp.op = "demographic" =>
        /\ (resp.ageGiven = "missing" \/ ~resp.genderGiven) =>
              (resp.status = 400 /\ ~resp.queried)
        /\ (resp.ageGiven = "integer" /\ resp.age >= 1 /\ resp.genderGiven) =>
              (resp.status = 200 /\ resp.queried /\ resp.products \in Seq(DOMAIN products))

====
